---- MODULE Spec2Model ----
(***************************************************************************)
(* Model of the trip reconciliation pipeline:                              *)
(*   scripts/lambda1.py  intake writer  (stream record -> keyed-store row) *)
(*   scripts/lambda2.py  reconciliation driver (change feed -> merge)      *)
(* The keyed store and its change feed are modelled by their documented    *)
(* behaviour (put overwrites, update is an upsert, delete of an absent key *)
(* succeeds, every write is notified as INSERT / MODIFY / REMOVE).         *)
(***************************************************************************)
EXTENDS Integers, Sequences, FiniteSets, TLC

(***************************************************************************)
(* Values.  A number string is a sequence of one-character strings, so     *)
(* that parsing and printing are real conversions.  In-memory values are   *)
(* tagged with their Python type.                                          *)
(***************************************************************************)
Digits == <<"0", "1", "2", "3", "4", "5", "6", "7", "8", "9">>

IsDigit(c) == \E i \in 1..10 : Digits[i] = c

DigitVal(c) == (CHOOSE i \in 1..10 : Digits[i] = c) - 1

AllDigits(s) == \A i \in 1..Len(s) : IsDigit(s[i])

\* position of the first occurrence of c in s, or 0
IndexOf(s, c) ==
    IF \E i \in 1..Len(s) : s[i] = c
    THEN CHOOSE i \in 1..Len(s) : s[i] = c /\ \A j \in 1..(i - 1) : s[j] # c
    ELSE 0

RECURSIVE NatOfDigits(_)
NatOfDigits(s) ==
    IF s = <<>> THEN 0
    ELSE 10 * NatOfDigits(SubSeq(s, 1, Len(s) - 1)) + DigitVal(s[Len(s)])

RECURSIVE DigitsOfNat(_)
DigitsOfNat(n) ==
    IF n < 10 THEN <<Digits[n + 1]>>
    ELSE Append(DigitsOfNat(n \div 10), Digits[(n % 10) + 1])

RECURSIVE StripLeadingZeros(_)
StripLeadingZeros(s) ==
    IF Len(s) > 1 /\ s[1] = "0" THEN StripLeadingZeros(Tail(s)) ELSE s

RECURSIVE Zeros(_)
Zeros(n) == IF n <= 0 THEN <<>> ELSE <<"0">> \o Zeros(n - 1)

InvalidOperation == [ty |-> "InvalidOperation"]

\* the parts of a number string: its sign, its mantissa and its exponent
SignOf(s) == IF Len(s) > 0 /\ s[1] = "-" THEN 1 ELSE 0

Unsigned(s) == IF Len(s) > 0 /\ s[1] \in {"+", "-"} THEN Tail(s) ELSE s

ExponentAt(body) == IndexOf(body, "E") + IndexOf(body, "e")

BeforeAt(s, i) == IF i = 0 THEN s ELSE SubSeq(s, 1, i - 1)

AfterAt(s, i) == IF i = 0 THEN <<>> ELSE SubSeq(s, i + 1, Len(s))

SignedDigits(s) == Len(Unsigned(s)) > 0 /\ AllDigits(Unsigned(s))

IntOfSigned(s) ==
    IF SignOf(s) = 1 THEN 0 - NatOfDigits(Unsigned(s)) ELSE NatOfDigits(Unsigned(s))

MakeDecimal(sign, intpart, fracpart, hasExp, expStr) ==
    IF /\ AllDigits(intpart) /\ AllDigits(fracpart)
       /\ Len(intpart) + Len(fracpart) > 0
       /\ hasExp => SignedDigits(expStr)
    THEN [ty |-> "Decimal", sign |-> sign,
          int |-> StripLeadingZeros(intpart \o fracpart),
          exp |-> (IF hasExp THEN IntOfSigned(expStr) ELSE 0) - Len(fracpart)]
    ELSE InvalidOperation

DecimalOfMantissa(sign, mant, dot, hasExp, expStr) ==
    MakeDecimal(sign, BeforeAt(mant, dot), AfterAt(mant, dot), hasExp, expStr)

DecimalOfParts(sign, mant, hasExp, expStr) ==
    DecimalOfMantissa(sign, mant, IndexOf(mant, "."), hasExp, expStr)

DecimalOfBody(sign, body, e) ==
    DecimalOfParts(sign, BeforeAt(body, e), e # 0, AfterAt(body, e))

DecimalOfUnsigned(sign, body) == DecimalOfBody(sign, body, ExponentAt(body))

\* decimal.Decimal(s) for a finite number string: sign, coefficient digits
\* without leading zeros, and exponent; InvalidOperation when s is no number.
Decimal(s) == DecimalOfUnsigned(SignOf(s), Unsigned(s))

FormatDecimal(sign, int, n, dotplace, e) ==
    (IF sign = 1 THEN <<"-">> ELSE <<>>)
    \o (IF dotplace <= 0 THEN <<"0", ".">> \o Zeros(0 - dotplace) \o int
        ELSE IF dotplace >= n THEN int \o Zeros(dotplace - n)
        ELSE SubSeq(int, 1, dotplace) \o <<".">> \o SubSeq(int, dotplace + 1, n))
    \o (IF e = 0 THEN <<>>
        ELSE IF e < 0 THEN <<"E", "-">> \o DigitsOfNat(0 - e)
        ELSE <<"E", "+">> \o DigitsOfNat(e))

FormatAt(sign, int, n, leftdigits, dotplace) ==
    FormatDecimal(sign, int, n, dotplace, leftdigits - dotplace)

FormatLeft(sign, int, n, exp, leftdigits) ==
    FormatAt(sign, int, n, leftdigits,
             IF exp <= 0 /\ leftdigits > -6 THEN leftdigits ELSE 1)

\* str(d) for a finite Decimal (scientific notation, as Decimal.__str__)
DecimalStr(d) == FormatLeft(d.sign, d.int, Len(d.int), d.exp, d.exp + Len(d.int))

(***************************************************************************)
(* Python values.  A str is a sequence of tokens (a number string is a     *)
(* sequence of characters), so that formatting a key and testing a prefix  *)
(* are operations on sequences.                                            *)
(***************************************************************************)
None == [ty |-> "NoneType"]

PyStr(s) == [ty |-> "str", val |-> s]

PyNum(chars) == [ty |-> "float", repr |-> chars]

\* str(v)
Str(v) == IF v.ty = "str" THEN v.val
          ELSE IF v.ty = "Decimal" THEN DecimalStr(v)
          ELSE IF v.ty = "NoneType" THEN <<"None">>
          ELSE IF v.ty = "bool" THEN (IF v.val THEN <<"True">> ELSE <<"False">>)
          ELSE v.repr

\* truth value of v
Truthy(v) == IF "ty" \notin DOMAIN v THEN DOMAIN v # {}
             ELSE IF v.ty = "NoneType" THEN FALSE
             ELSE IF v.ty = "str" THEN v.val # <<>>
             ELSE IF v.ty = "bool" THEN v.val
             ELSE IF v.ty = "Decimal" THEN v.int # <<"0">>
             ELSE IF v.ty = "dict" THEN TRUE
             ELSE v.repr \notin {<<"0">>, <<"0", ".", "0">>}

\* d.get(k)
Get(d, k) == IF k \in DOMAIN d THEN d[k] ELSE None

EmptyDict == [k \in {} |-> None]

(***************************************************************************)
(* Intake writer, scripts/lambda1.py                                       *)
(***************************************************************************)
StartStrAttrs == {"pickup_datetime", "estimated_dropoff_datetime"}

StartNumAttrs == {"pickup_location_id", "dropoff_location_id", "vendor_id",
                  "estimated_fare_amount"}

EndStrAttrs == {"dropoff_datetime"}

EndNumAttrs == {"rate_code", "payment_type", "fare_amount", "trip_distance",
                "tip_amount", "trip_type", "passenger_count"}

\* a function without the arguments it maps to None
WithoutNone(f) == [k \in {j \in DOMAIN f : f[j] # None} |-> f[k]]

\* {'N': str(d)} for a Decimal d, None when the conversion raised
NumberValue(d) == IF d = InvalidOperation THEN None ELSE [N |-> DecimalStr(d)]

\* the attribute made of a parsed value: a string as S, a number as N through
\* Decimal(str(v)); None when the value is None or the conversion raises
AttributeOf(v, numeric) ==
    IF v = None THEN None
    ELSE IF numeric THEN NumberValue(Decimal(Str(v)))
    ELSE [S |-> Str(v)]

\* the side-specific attributes taken from parsed_data
SideAttributes(parsed_data, strs, nums) ==
    WithoutNone([k \in strs \cup nums |-> AttributeOf(Get(parsed_data, k), k \in nums)])

\* as TimestampOf, with the timestamps of the two sides exchanged
TimestampOf_exchanged(parsed_data, data_type) ==
    IF data_type = PyStr(<<"trip_start">>) THEN Get(parsed_data, "dropoff_datetime")
    ELSE IF data_type = PyStr(<<"trip_end">>) THEN Get(parsed_data, "pickup_datetime")
    ELSE None

\* the primary timestamp of a record: that of its side
TimestampOf(parsed_data, data_type) ==
    IF data_type = PyStr(<<"trip_start">>) THEN Get(parsed_data, "pickup_datetime")
    ELSE IF data_type = PyStr(<<"trip_end">>) THEN Get(parsed_data, "dropoff_datetime")
    ELSE None

\* the item's key and common attributes
BaseItem(raw, trip_id, data_type, timestamp_str) ==
    [PK        |-> [S |-> Str(trip_id)],
     SK        |-> [S |-> Str(data_type) \o <<"#">> \o Str(timestamp_str)],
     trip_id   |-> [S |-> Str(trip_id)],
     data_type |-> [S |-> Str(data_type)],
     timestamp |-> [S |-> Str(timestamp_str)],
     raw_data  |-> [S |-> raw]]

DynamodbItem(raw, parsed_data, trip_id, data_type, timestamp_str) ==
    IF ~Truthy(trip_id) \/ ~Truthy(data_type) \/ ~Truthy(timestamp_str)
    THEN None
    ELSE SideAttributes(parsed_data,
             IF data_type = PyStr(<<"trip_start">>) THEN StartStrAttrs ELSE EndStrAttrs,
             IF data_type = PyStr(<<"trip_start">>) THEN StartNumAttrs ELSE EndNumAttrs)
         @@ BaseItem(raw, trip_id, data_type, timestamp_str)

\* process_kinesis_record on the decoded JSON object: the row, or None
process_kinesis_record(raw, parsed_data) ==
    DynamodbItem(raw, parsed_data, Get(parsed_data, "trip_id"),
                 Get(parsed_data, "data_type"),
                 TimestampOf(parsed_data, Get(parsed_data, "data_type")))

(***************************************************************************)
(* Keyed store (DynamoDB through the low-level client) and its change feed *)
(***************************************************************************)
AttributeValueTags == {"S", "N", "BOOL", "NULL", "B", "L", "M", "SS", "NS", "BS"}

\* the client accepts a value only in the wire form {tag: value}
IsAttributeValue(v) == DOMAIN v # {} /\ DOMAIN v \subseteq AttributeValueTags

\* the client's parameter validation of Key: every component an AttributeValue
ValidKey(Key) == \A a \in DOMAIN Key : IsAttributeValue(Key[a])

\* the row address (partition key, sort key) of a valid Key or of an Item
Address(Key) == <<Key.PK.S, Key.SK.S>>

\* change-feed notifications of one write: old and new are rows or None
Notifications(old, new) ==
    IF old = None /\ new # None
    THEN {[eventName |-> "INSERT", dynamodb |-> [NewImage |-> new]]}
    ELSE IF old # None /\ new = None
    THEN {[eventName |-> "REMOVE", dynamodb |-> [OldImage |-> old]]}
    ELSE IF old # new
    THEN {[eventName |-> "MODIFY", dynamodb |-> [NewImage |-> new]]}
    ELSE {}

RowAt(t, a) == IF a \in DOMAIN t THEN t[a] ELSE None

\* the outcome of a store call: the table after it and what the feed gets
Outcome(t, events) == [table |-> t, events |-> events]

\* PutRequest of batch_write_item: the item replaces the row at its address
PutItem(t, Item) ==
    Outcome((Address(Item) :> Item) @@ t,
            Notifications(RowAt(t, Address(Item)), Item))

\* an update request is accepted when its key is valid and every placeholder
\* of the expression is defined
ValidUpdate(req) ==
    /\ ValidKey(req.Key)
    /\ req.UpdateExpression \subseteq DOMAIN req.ExpressionAttributeValues
    /\ req.UpdateExpression \subseteq DOMAIN req.ExpressionAttributeNames

\* the row a SET expression makes of a row
SetAttributes(base, req) ==
    [k \in req.UpdateExpression |-> req.ExpressionAttributeValues[k]] @@ base

WriteRow(t, a, old, new) == Outcome((a :> new) @@ t, Notifications(old, new))

UpsertRow(t, a, old, req) ==
    WriteRow(t, a, old, SetAttributes(IF old = None THEN req.Key ELSE old, req))

\* update_item with a SET expression: creates the row when it is absent
UpdateItem(t, req) == UpsertRow(t, Address(req.Key), RowAt(t, Address(req.Key)), req)

\* delete_item: deleting an absent row succeeds and changes nothing
DeleteItem(t, Key) ==
    Outcome([b \in DOMAIN t \ {Address(Key)} |-> t[b]],
            Notifications(RowAt(t, Address(Key)), None))

\* s begins with the prefix p
begins_with(s, p) == Len(s) >= Len(p) /\ SubSeq(s, 1, Len(p)) = p

(***************************************************************************)
(* Reconciliation driver, scripts/lambda2.py                               *)
(***************************************************************************)
\* the timestamps of the modelled trips, in string order
Timestamps == <<"08:00", "08:20">>

Rank(t) == CHOOSE i \in 1..Len(Timestamps) : Timestamps[i] = t

\* string order of two sort keys "side#timestamp" of the same side
SortsBefore(sk1, sk2) == Rank(sk1[3]) <= Rank(sk2[3])

\* Decimal(value['N']), the string itself when the conversion raises
DecimalOrString(chars, d) == IF d = InvalidOperation THEN PyStr(chars) ELSE d

UnmarshalledValue(value) ==
    IF "S" \in DOMAIN value THEN PyStr(value.S)
    ELSE IF "N" \in DOMAIN value THEN DecimalOrString(value.N, Decimal(value.N))
    ELSE IF "BOOL" \in DOMAIN value THEN [ty |-> "bool", val |-> value.BOOL]
    ELSE IF "NULL" \in DOMAIN value THEN None
    ELSE [ty |-> "dict", val |-> value]

unmarshall_dynamodb_item(dynamodb_item) ==
    IF DOMAIN dynamodb_item = {} THEN None
    ELSE [key \in DOMAIN dynamodb_item |-> UnmarshalledValue(dynamodb_item[key])]

\* the rows a Query with PK = pk AND begins_with(SK, prefix) matches
QueryMatches(t, pk, prefix) ==
    {a \in DOMAIN t : a[1] = pk /\ begins_with(a[2], prefix)}

\* Limit=1: the first match in sort-key order, None when there is none
FirstItem(t, matches) ==
    IF matches = {} THEN None
    ELSE t[CHOOSE a \in matches : \A b \in matches : SortsBefore(a[2], b[2])]

\* as find_counterpart_item, querying the side of the current item
find_counterpart_item_same_side(t, trip_id, current_data_type, raises) ==
    IF raises THEN None
    ELSE FirstItem(t, QueryMatches(t, Str(trip_id),
             IF current_data_type = PyStr(<<"trip_start">>)
             THEN <<"trip_start", "#">> ELSE <<"trip_end", "#">>))

\* find_counterpart_item: None also when the query raises
find_counterpart_item(t, trip_id, current_data_type, raises) ==
    IF raises THEN None
    ELSE FirstItem(t, QueryMatches(t, Str(trip_id),
             IF current_data_type = PyStr(<<"trip_start">>)
             THEN <<"trip_end", "#">> ELSE <<"trip_start", "#">>))

\* as attributes_to_merge, without fare_amount
attributes_to_merge_without_fare ==
    <<"dropoff_datetime", "rate_code", "payment_type",
      "trip_distance", "tip_amount", "trip_type", "passenger_count", "status">>

\* as attributes_to_merge, with raw_data, which both sides carry
attributes_to_merge_with_raw_data ==
    <<"dropoff_datetime", "rate_code", "payment_type", "fare_amount",
      "trip_distance", "tip_amount", "trip_type", "passenger_count", "status",
      "raw_data">>

\* the attributes update_merged_item copies, in the order of the dictionary
attributes_to_merge ==
    <<"dropoff_datetime", "rate_code", "payment_type", "fare_amount",
      "trip_distance", "tip_amount", "trip_type", "passenger_count", "status">>

\* as MarshalledValue, writing the digits of a Decimal without its exponent
MarshalledValue_without_exponent(value) ==
    IF value.ty = "str" THEN [S |-> value.val]
    ELSE IF value.ty = "Decimal" THEN [N |-> value.int]
    ELSE IF value.ty \in {"int", "float", "bool"}
    THEN NumberValue(Decimal(Str(value)))
    ELSE IF value.ty = "NoneType" THEN [NULL |-> TRUE]
    ELSE None

\* the wire value update_merged_item builds for a value, or None when the
\* attribute is skipped (the loop continues without a value or a name)
MarshalledValue(value) ==
    IF value.ty = "str" THEN [S |-> value.val]
    ELSE IF value.ty = "Decimal" THEN [N |-> DecimalStr(value)]
    ELSE IF value.ty \in {"int", "float", "bool"}
    THEN NumberValue(Decimal(Str(value)))
    ELSE IF value.ty = "NoneType" THEN [NULL |-> TRUE]
    ELSE None

\* the update_item request: every merged attribute present in the data is in
\* the expression, the converted ones have a value and a name
UpdateRequest(Key, parts, values) ==
    IF parts = {} THEN None
    ELSE [Key |-> Key,
          UpdateExpression |-> parts,
          ExpressionAttributeValues |-> values,
          ExpressionAttributeNames |-> [key \in DOMAIN values |-> key]]

MergedParts(data_to_add) ==
    {attributes_to_merge[i] : i \in 1..Len(attributes_to_merge)}
        \cap DOMAIN data_to_add

MergedValues(data_to_add, parts) ==
    WithoutNone([key \in parts |-> MarshalledValue(data_to_add[key])])

\* the request update_merged_item sends, or None when it returns early
update_merged_item(item_to_update_key, data_to_add) ==
    IF item_to_update_key = None \/ DOMAIN data_to_add = {} THEN None
    ELSE UpdateRequest(item_to_update_key, MergedParts(data_to_add),
                       MergedValues(data_to_add, MergedParts(data_to_add)))

\* what lambda_handler decides for one stream record once the counterpart
\* lookup has answered: the keys to update and to delete and the data to add
Decision(item_to_update_key, item_to_delete_key, data_to_add) ==
    [item_to_update_key |-> item_to_update_key,
     item_to_delete_key |-> item_to_delete_key,
     data_to_add |-> data_to_add]

NoDecision == Decision(None, None, EmptyDict)

\* image.get(name, {}).get('S')
GetS(image, name) ==
    IF name \in DOMAIN image /\ "S" \in DOMAIN image[name]
    THEN PyStr(image[name].S) ELSE None

\* as HasKeyAndType, without the test of data_type
HasKeyAndType_without_data_type(image) ==
    /\ Truthy(GetS(image, "PK"))
    /\ Truthy(GetS(image, "SK"))

HasKeyAndType(image) ==
    /\ Truthy(GetS(image, "PK"))
    /\ Truthy(GetS(image, "SK"))
    /\ Truthy(Get(unmarshall_dynamodb_item(image), "data_type"))

\* the record carries a non-empty after-image
HasImage(record) ==
    /\ "NewImage" \in DOMAIN record.dynamodb
    /\ DOMAIN record.dynamodb.NewImage # {}

\* as NewImageOf, for a record of any kind that carries an image
NewImageOf_any_event(record) ==
    IF "NewImage" \notin DOMAIN record.dynamodb THEN None
    ELSE IF DOMAIN record.dynamodb.NewImage = {} THEN None
    ELSE IF ~HasKeyAndType(record.dynamodb.NewImage) THEN None
    ELSE record.dynamodb.NewImage

\* lambda_handler, the part before the lookup: the new image, or None when
\* the record is skipped
NewImageOf(record) ==
    IF record.eventName # "INSERT" THEN None
    ELSE IF "NewImage" \notin DOMAIN record.dynamodb THEN None
    ELSE IF DOMAIN record.dynamodb.NewImage = {} THEN None
    ELSE IF ~HasKeyAndType(record.dynamodb.NewImage) THEN None
    ELSE record.dynamodb.NewImage

\* data_to_add_to_updated_item['status'] = 'completed'
Completed(data) == ("status" :> PyStr(<<"completed">>)) @@ data

\* as ChooseKeys, updating the new item also when it is the trip_end item
ChooseKeys_update_new_item(new_item_key, counterpart_item_key, new_item, counterpart_item) ==
    IF ~Truthy(counterpart_item_key.PK) \/ ~Truthy(counterpart_item_key.SK)
    THEN NoDecision
    ELSE IF /\ Get(new_item, "data_type") = PyStr(<<"trip_start">>)
            /\ Get(counterpart_item, "data_type") = PyStr(<<"trip_end">>)
    THEN Decision(new_item_key, counterpart_item_key, Completed(counterpart_item))
    ELSE IF /\ Get(new_item, "data_type") = PyStr(<<"trip_end">>)
            /\ Get(counterpart_item, "data_type") = PyStr(<<"trip_start">>)
    THEN Decision(new_item_key, new_item_key, Completed(new_item))
    ELSE NoDecision

\* as ChooseKeys, with the second branch testing the first branch's pair, so
\* that it is never taken
ChooseKeys_first_branch_only(new_item_key, counterpart_item_key, new_item, counterpart_item) ==
    IF ~Truthy(counterpart_item_key.PK) \/ ~Truthy(counterpart_item_key.SK)
    THEN NoDecision
    ELSE IF /\ Get(new_item, "data_type") = PyStr(<<"trip_start">>)
            /\ Get(counterpart_item, "data_type") = PyStr(<<"trip_end">>)
    THEN Decision(new_item_key, counterpart_item_key, Completed(counterpart_item))
    ELSE NoDecision

\* the choice of the item to update and of the item to delete
ChooseKeys(new_item_key, counterpart_item_key, new_item, counterpart_item) ==
    IF ~Truthy(counterpart_item_key.PK) \/ ~Truthy(counterpart_item_key.SK)
    THEN NoDecision
    ELSE IF /\ Get(new_item, "data_type") = PyStr(<<"trip_start">>)
            /\ Get(counterpart_item, "data_type") = PyStr(<<"trip_end">>)
    THEN Decision(new_item_key, counterpart_item_key, Completed(counterpart_item))
    ELSE IF /\ Get(new_item, "data_type") = PyStr(<<"trip_end">>)
            /\ Get(counterpart_item, "data_type") = PyStr(<<"trip_start">>)
    THEN Decision(counterpart_item_key, new_item_key, Completed(new_item))
    ELSE NoDecision

\* the key of the new item: {'PK': {'S': pk_val}, 'SK': {'S': sk_val}}
new_item_key(image) ==
    [PK |-> [S |-> image.PK.S], SK |-> [S |-> image.SK.S]]

\* the same key form for the counterpart (not what the handler builds)
counterpart_item_key_typed(found) ==
    [PK |-> [S |-> found.PK.S], SK |-> [S |-> found.SK.S]]

\* the key of the counterpart: {'PK': <str>, 'SK': <str>}, the two strings
\* without their type descriptor
counterpart_item_key(found) ==
    [PK |-> GetS(found, "PK"), SK |-> GetS(found, "SK")]

\* as Decide, marking the new item completed when no counterpart is found
Decide_completes_alone(image, found) ==
    IF found = None
    THEN Decision(new_item_key(image), None, Completed(unmarshall_dynamodb_item(image)))
    ELSE IF DOMAIN found = {} THEN NoDecision
    ELSE ChooseKeys(new_item_key(image), counterpart_item_key(found),
                    unmarshall_dynamodb_item(image),
                    unmarshall_dynamodb_item(found))

\* lambda_handler, from the lookup's answer to the choice of the two keys
Decide(image, found) ==
    IF found = None THEN NoDecision
    ELSE IF DOMAIN found = {} THEN NoDecision
    ELSE ChooseKeys(new_item_key(image), counterpart_item_key(found),
                    unmarshall_dynamodb_item(image),
                    unmarshall_dynamodb_item(found))

\* the lookup and the decision for a record that is not skipped
LookupAndDecide(t, image, raises) ==
    Decide(image,
           find_counterpart_item(t, GetS(image, "PK"),
               Get(unmarshall_dynamodb_item(image), "data_type"), raises))

\* lambda_handler on one stream record, up to the decision
HandleRecord(t, image, raises) ==
    IF image = None THEN NoDecision ELSE LookupAndDecide(t, image, raises)

(***************************************************************************)
(* The system: the intake writer puts rows, the store notifies every write *)
(* on the change feed, and workers run the driver on notifications, which  *)
(* the feed delivers at least once and in any order.                       *)
(***************************************************************************)
\* bounds of the model
MaxIntake == 3

MaxDeliver == 3

MaxFaults == 1

MaxLog == 6

\* the workers that run the driver concurrently
Workers == {1, 2}

TripId == <<"T1">>

\* json.loads(base64.b64decode(data)) of the stream records of the model:
\* one trip_start and one trip_end record per timestamp
StartPayload(t) ==
    [trip_id |-> PyStr(TripId), data_type |-> PyStr(<<"trip_start">>),
     pickup_datetime |-> PyStr(<<t>>),
     pickup_location_id |-> PyNum(<<"9", "3">>),
     estimated_fare_amount |-> PyNum(<<"1", "2", ".", "5">>)]

EndPayload(t) ==
    [trip_id |-> PyStr(TripId), data_type |-> PyStr(<<"trip_end">>),
     dropoff_datetime |-> PyStr(<<t>>),
     fare_amount |-> IF t = Timestamps[1] THEN PyNum(<<"1", "5", ".", "7", "5">>)
                     ELSE PyNum(<<"2", "0", ".", "0">>),
     passenger_count |-> PyNum(<<"2">>)]

KinesisData == {<<side, Timestamps[i]>> :
                  side \in {"trip_start", "trip_end"}, i \in 1..Len(Timestamps)}

Decoded(data) == IF data[1] = "trip_start" THEN StartPayload(data[2])
                 ELSE EndPayload(data[2])

\* the row the intake writer makes of a stream record
IntakeItem(data) == process_kinesis_record(data, Decoded(data))

VARIABLES
    table,      \* the keyed store: address -> row
    feed,       \* the change-feed notifications emitted so far
    worker,     \* per worker: its position in lambda_handler and its locals
    nput,       \* number of stream records the intake writer has handled
    ndeliver,   \* number of feed records the driver has taken
    faults,     \* number of store calls that raised
    log,        \* history: the first MaxLog puts, begins and ends, in order
    taken,      \* history: the feed records the driver has taken
    call        \* the call in progress of a function run on its own

vars == <<table, feed, worker, nput, ndeliver, faults, log, taken, call>>

\* no function is being run on its own
Idle == [fn |-> "none"]

Ready == [pc |-> "ready", d |-> NoDecision, updated |-> "no"]

Overflow == <<[e |-> "overflow"]>>

Init ==
    /\ table = [a \in {} |-> None]
    /\ feed = {}
    /\ worker = [w \in Workers |-> Ready]
    /\ nput = 0
    /\ ndeliver = 0
    /\ faults = 0
    /\ log = <<>>
    /\ taken = {}
    /\ call = Idle

\* the history with more events
Logged(events) ==
    IF log # Overflow /\ Len(log) + Len(events) <= MaxLog
    THEN log \o events ELSE Overflow

\* the effect of a store call on the store and on its change feed
Apply(res) == table' = res.table /\ feed' = feed \cup res.events

Fault(raises) == faults' = IF raises THEN faults + 1 ELSE faults

Raises == {r \in BOOLEAN : r => faults < MaxFaults}

\* batch_write_to_dynamodb of the items of one invocation: a put, or nothing
\* when process_kinesis_record returned None
PutOrSkip(t, item) == IF item = None THEN Outcome(t, {}) ELSE PutItem(t, item)

\* lambda1.lambda_handler on one stream record
Intake(data) ==
    /\ nput < MaxIntake
    /\ nput' = nput + 1
    /\ Apply(PutOrSkip(table, IntakeItem(data)))
    /\ log' = Logged(<<[e |-> "put", data |-> data]>>)
    /\ UNCHANGED <<worker, ndeliver, faults, taken, call>>

Begin(w, record) == [e |-> "begin", w |-> w, record |-> record]

End(w) == [e |-> "end", w |-> w]

\* the worker goes on to the update when a pair was chosen, and to the next
\* record otherwise
Decided(w, record, d) ==
    IF d.item_to_update_key # None
    THEN /\ worker' = [worker EXCEPT ![w] = [pc |-> "update", d |-> d, updated |-> "no"]]
         /\ log' = Logged(<<Begin(w, record)>>)
    ELSE /\ worker' = worker
         /\ log' = Logged(<<Begin(w, record), End(w)>>)

\* the update request that marks the row of an image as being processed
MarkRequest(image) ==
    [Key |-> new_item_key(image),
     UpdateExpression |-> {"status"},
     ExpressionAttributeValues |-> [k \in {"status"} |-> [S |-> <<"processing">>]],
     ExpressionAttributeNames |-> [k \in {"status"} |-> k]]

\* as Take, with the row of the record marked in the store before the lookup
Take_marks_row(w, record, raises) ==
    /\ worker[w].pc = "ready"
    /\ \A v \in Workers : v < w => worker[v].pc # "ready"
    /\ ndeliver < MaxDeliver
    /\ ndeliver' = ndeliver + 1
    /\ raises => NewImageOf(record) # None
    /\ Decided(w, record, HandleRecord(table, NewImageOf(record), raises))
    /\ Fault(raises)
    /\ taken' = taken \cup {record}
    /\ Apply(IF NewImageOf(record) = None THEN Outcome(table, {})
             ELSE UpdateItem(table, MarkRequest(NewImageOf(record))))
    /\ UNCHANGED <<nput, call>>

\* lambda_handler takes the next record of its batch: skip, or look the
\* counterpart up and decide
Take(w, record, raises) ==
    /\ worker[w].pc = "ready"
    /\ \A v \in Workers : v < w => worker[v].pc # "ready"
    /\ ndeliver < MaxDeliver
    /\ ndeliver' = ndeliver + 1
    /\ raises => NewImageOf(record) # None
    /\ Decided(w, record, HandleRecord(table, NewImageOf(record), raises))
    /\ Fault(raises)
    /\ taken' = taken \cup {record}
    /\ UNCHANGED <<table, feed, nput, call>>

\* the request is sent and accepted
Accepted(req, raises) == req # None /\ ValidUpdate(req) /\ ~raises

Updated(w, ok, res) ==
    /\ Apply(res)
    /\ worker' = [worker EXCEPT ![w] =
           [pc |-> "delete",
            d |-> Decision(None, worker[w].d.item_to_delete_key, EmptyDict),
            updated |-> IF ok THEN "ok" ELSE "failed"]]

Send(w, req, raises) ==
    /\ raises => (req # None /\ ValidUpdate(req))
    /\ Updated(w, Accepted(req, raises),
               IF Accepted(req, raises) THEN UpdateItem(table, req)
               ELSE Outcome(table, {}))

\* update_merged_item(item_to_update_key, data_to_add_to_updated_item): an
\* exception of update_item is caught and the handler goes on
Update(w, raises) ==
    /\ worker[w].pc = "update"
    /\ Send(w, update_merged_item(worker[w].d.item_to_update_key,
                                  worker[w].d.data_to_add), raises)
    /\ Fault(raises)
    /\ UNCHANGED <<nput, ndeliver, log, taken, call>>

Deletable(Key, raises) == Key # None /\ ValidKey(Key) /\ ~raises

Remove(Key, raises) ==
    /\ raises => (Key # None /\ ValidKey(Key))
    /\ Apply(IF Deletable(Key, raises) THEN DeleteItem(table, Key)
             ELSE Outcome(table, {}))

\* delete_item(item_to_delete_key): an exception of delete_item is caught
Delete(w, raises) ==
    /\ worker[w].pc = "delete"
    /\ Remove(worker[w].d.item_to_delete_key, raises)
    /\ worker' = [worker EXCEPT ![w] = Ready]
    /\ log' = Logged(<<End(w)>>)
    /\ Fault(raises)
    /\ UNCHANGED <<nput, ndeliver, taken, call>>

Next ==
    \/ \E data \in KinesisData : Intake(data)
    \/ \E w \in Workers, record \in feed, raises \in Raises :
          Take(w, record, raises)
    \/ \E w \in Workers, raises \in Raises : Update(w, raises)
    \/ \E w \in Workers, raises \in Raises : Delete(w, raises)

Spec == Init /\ [][Next]_vars

(***************************************************************************)
(* lambda_handler on one record, run to its end without interleaving and   *)
(* without a store failure: the store it leaves.                           *)
(***************************************************************************)
AfterUpdate(t, req) ==
    IF Accepted(req, FALSE) THEN UpdateItem(t, req).table ELSE t

AfterDelete(t, Key) ==
    IF Deletable(Key, FALSE) THEN DeleteItem(t, Key).table ELSE t

AfterDecision(t, d) ==
    IF d.item_to_update_key = None THEN t
    ELSE AfterDelete(AfterUpdate(t, update_merged_item(d.item_to_update_key,
                                                        d.data_to_add)),
                     d.item_to_delete_key)

RunHandler(t, record) ==
    AfterDecision(t, HandleRecord(t, NewImageOf(record), FALSE))

\* the store after the intake writer has put the row of a stream record
AfterIntake(t, data) == PutOrSkip(t, IntakeItem(data)).table

\* the INSERT notification of the row of a stream record
InsertOf(data) ==
    [eventName |-> "INSERT", dynamodb |-> [NewImage |-> IntakeItem(data)]]

(***************************************************************************)
(* Properties                                                              *)
(***************************************************************************)
S1 == <<"trip_start", Timestamps[1]>>

E1 == <<"trip_end", Timestamps[1]>>

EmptyTable == [a \in {} |-> None]

IsSide(row, side) == row.data_type = [S |-> <<side>>]

IsCompleted(row) == "status" \in DOMAIN row /\ row.status = [S |-> <<"completed">>]

\* the attributes only a trip_end row has
EndOnly(row) == DOMAIN row \cap (EndStrAttrs \cup EndNumAttrs)

\* row carries the side-specific attributes of the trip_end row donor
HasEndAttributes(row, donor) ==
    \A k \in EndOnly(donor) : k \in DOMAIN row /\ row[k] = donor[k]

\* Key is a key the store accepts and names a row of the given side
Addresses(Key, side) ==
    /\ Key # None
    /\ ValidKey(Key)
    /\ begins_with(Key.SK.S, <<side, "#">>)

AllReady == \A w \in Workers : worker[w].pc = "ready"

\* the history of: data1 is put and its notification handled to the end,
\* then data2 is put and its notification handled to the end
OneThenOther(data1, data2) ==
    <<[e |-> "put", data |-> data1], Begin(1, InsertOf(data1)), End(1),
      [e |-> "put", data |-> data2], Begin(1, InsertOf(data2)), End(1)>>

\* the store that history leaves, computed from the handler's steps
FinalOf(data1, data2) ==
    RunHandler(AfterIntake(RunHandler(AfterIntake(EmptyTable, data1),
                                      InsertOf(data1)), data2),
               InsertOf(data2))

\* the single completed row a merge of the two rows must leave
MergedStore(t, start, end) ==
    /\ DOMAIN t = {Address(start)}
    /\ IsCompleted(t[Address(start)])
    /\ \A k \in DOMAIN start : t[Address(start)][k] = start[k]
    /\ HasEndAttributes(t[Address(start)], end)

\* C1: whenever the handler has found a counterpart, the key it updates is a
\* key of the store that names the trip_start row and the key it deletes is a
\* key of the store that names the trip_end row.
C1_UpdateStartDeleteEnd ==
    \A w \in Workers :
        worker[w].pc = "update" =>
            /\ Addresses(worker[w].d.item_to_update_key, "trip_start")
            /\ Addresses(worker[w].d.item_to_delete_key, "trip_end")

\* C2: when the update of the trip_start row has failed, the handler does
\* not delete: the step that ends a handler whose update failed removes no row.
C2_FailedUpdateBlocksDelete ==
    [][\A w \in Workers :
          (/\ worker[w].pc = "delete"
           /\ worker[w].updated = "failed"
           /\ worker'[w].pc = "ready") => DOMAIN table' = DOMAIN table]_vars

\* the history of: both rows are put, then the two INSERT notifications are
\* handled, each once, in any interleaving
BothThenHandled ==
    /\ log # Overflow /\ Len(log) = 6
    /\ {log[1], log[2]} = {[e |-> "put", data |-> S1], [e |-> "put", data |-> E1]}
    /\ {log[i].record : i \in {j \in 3..6 : log[j].e = "begin"}}
           = {InsertOf(S1), InsertOf(E1)}
    /\ AllReady /\ faults = 0

\* C3: after both rows are put and both INSERT notifications are handled, in
\* any interleaving of the two handlers, the store holds exactly one row, which
\* is completed and carries the attributes of both sides.
C3_ConcurrentMerge ==
    BothThenHandled => MergedStore(table, IntakeItem(S1), IntakeItem(E1))

\* C4: start-then-end and end-then-start leave the same store.
C4_OrderIndependence ==
    /\ (log = OneThenOther(S1, E1) /\ faults = 0) => table = FinalOf(E1, S1)
    /\ (log = OneThenOther(E1, S1) /\ faults = 0) => table = FinalOf(S1, E1)

\* C5: after start is put and handled and then end is put and handled, with
\* no store failure, the store holds exactly the completed row at the
\* trip_start key.
C5_StartThenEnd ==
    (log = OneThenOther(S1, E1) /\ faults = 0) =>
        MergedStore(table, IntakeItem(S1), IntakeItem(E1))

\* C6: handling an INSERT notification twice in succession leaves the store
\* as handling it once does, in every reachable store and for every INSERT
\* notification of the feed.
C6_Idempotent ==
    \A n \in feed :
        n.eventName = "INSERT" =>
            RunHandler(RunHandler(table, n), n) = RunHandler(table, n)

\* a redelivered INSERT notification whose handling changes the store
C6_Witness ==
    /\ AllReady
    /\ \E n \in taken :
          /\ n.eventName = "INSERT"
          /\ RunHandler(table, n) # table
          /\ RunHandler(RunHandler(table, n), n) = RunHandler(table, n)

Merged == \E a \in DOMAIN table : IsCompleted(table[a])

IsInsert(record, side) ==
    record.eventName = "INSERT" /\ IsSide(record.dynamodb.NewImage, side)

HasRow(side) == \E a \in DOMAIN table : IsSide(table[a], side)

\* C7 as claimed: an INSERT notification taken again after the merge finds no
\* counterpart, and the handler issues no update and no delete for it.
C7_ReprocessFindsNothing ==
    [][\A w \in Workers, record \in feed :
          (/\ Take(w, record, FALSE)
           /\ record \in taken
           /\ record.eventName = "INSERT"
           /\ Merged) => worker' = worker]_vars

\* C7 as amended: after the merge, a trip_start notification taken again finds
\* nothing once no trip_end row is left, and the handler issues nothing; a
\* trip_end notification taken again finds the trip_start row, and the handler
\* goes on to the update and the delete.
C7_ReprocessBySide ==
    [][\A w \in Workers, record \in feed :
          (Take(w, record, FALSE) /\ record \in taken /\ Merged) =>
              /\ (IsInsert(record, "trip_start") /\ ~HasRow("trip_end"))
                     => worker' = worker
              /\ IsInsert(record, "trip_end")
                     => /\ worker'[w].pc = "update"
                        /\ Addresses(worker'[w].d.item_to_delete_key, "trip_end")]_vars

\* the trip_end notification is being handled again after the merge and after
\* an earlier handling of it has removed the trip_end row
C7_Witness ==
    /\ Merged
    /\ \E n \in feed : n.eventName = "REMOVE" /\ n.dynamodb.OldImage = IntakeItem(E1)
    /\ \E w \in Workers :
          /\ worker[w].pc = "update"
          /\ worker[w].d.item_to_delete_key = new_item_key(IntakeItem(E1))
          /\ \A v \in Workers \ {w} : worker[v].pc = "ready"

\* C8: a completed row stays: in every step, a row that is completed is still
\* there afterwards, completed and with its end-side attributes.
C8_CompletedIsTerminal ==
    [][\A a \in DOMAIN table :
          IsCompleted(table[a]) =>
              /\ a \in DOMAIN table'
              /\ IsCompleted(table'[a])
              /\ EndOnly(table[a]) \subseteq DOMAIN table'[a]]_vars

\* C9: the store never holds two completed rows of one trip.
C9_OneCompletedPerTrip ==
    \A a, b \in DOMAIN table :
        (a[1] = b[1] /\ IsCompleted(table[a]) /\ IsCompleted(table[b])) => a = b

\* the addresses of the rows the driver has deleted
Removed == {Address(n.dynamodb.OldImage) : n \in {m \in feed : m.eventName = "REMOVE"}}

\* C10: no step of the driver creates a row at an address the driver has
\* deleted a row from.
C10_NoResurrection ==
    [][nput' = nput => (DOMAIN table' \ DOMAIN table) \cap Removed = {}]_vars

\* the trip_end notification has been handled, which removed the row, and is
\* handled again: the second handler has issued its update
C10_Witness ==
    /\ log # Overflow /\ Len(log) = 5
    /\ log[3] = Begin(1, InsertOf(E1)) /\ log[4] = End(1)
    /\ log[5] = Begin(1, InsertOf(E1))
    /\ worker[1].pc = "delete"
    /\ Address(IntakeItem(E1)) \in Removed
    /\ Address(IntakeItem(E1)) \notin DOMAIN table

(***************************************************************************)
(* The driver on a table other writers share: a trip_end row may hold an   *)
(* attribute of a type the intake writer never stores, and the handler may *)
(* be invoked with records whose image lacks attributes or is absent.      *)
(***************************************************************************)
\* the values of a row's fare_amount: the intake writer's number, a BOOL, a
\* list
StoredValues == {IntakeItem(E1).fare_amount, [BOOL |-> TRUE], [L |-> <<>>]}

EndRowWith(value) == ("fare_amount" :> value) @@ IntakeItem(E1)

\* the table with the trip_start row and a trip_end row
TableOf(start, end) == (Address(start) :> start) @@ (Address(end) :> end)

\* a row or an image without the attribute k
Without(row, k) == [j \in DOMAIN row \ {k} |-> row[j]]

InsertRecord(image) == [eventName |-> "INSERT", dynamodb |-> [NewImage |-> image]]

\* an INSERT record that carries the keys only
KeysOnlyRecord(image) ==
    [eventName |-> "INSERT", dynamodb |-> [Keys |-> new_item_key(image)]]

\* the attributes the records of the model can lack
OptionalAttributes == {"PK", "SK", "data_type", "timestamp"}

\* event['Records'] besides the notifications of the rows: records of the
\* trip_start row with an attribute missing, or with no image
PartialRecords ==
    {InsertRecord(Without(IntakeItem(S1), k)) : k \in OptionalAttributes}
        \cup {KeysOnlyRecord(IntakeItem(S1))}

DriverInit ==
    /\ table \in {TableOf(IntakeItem(S1), EndRowWith(v)) : v \in StoredValues}
    /\ feed = {InsertRecord(table[a]) : a \in DOMAIN table} \cup PartialRecords
    /\ worker = [w \in Workers |-> Ready]
    /\ nput = MaxIntake - 1
    /\ ndeliver = 0
    /\ faults = 0
    /\ log = Overflow
    /\ taken = {}
    /\ call = Idle

DriverSpec == DriverInit /\ [][Next]_vars

\* C11: a step in which the handler takes a MODIFY or REMOVE record, or an
\* INSERT record without an after-image, issues no store call: the store, the
\* feed and the fault count are unchanged and the handler is at its next
\* record, with no update or delete pending.
C11_OnlyInsertWithImage ==
    [][\A w \in Workers, record \in feed, raises \in BOOLEAN :
          (/\ Take(w, record, raises)
           /\ (record.eventName # "INSERT" \/ ~HasImage(record)))
              => /\ table' = table /\ feed' = feed /\ faults' = faults
                 /\ worker' = worker]_vars

\* the driver's own update has emitted a MODIFY record, which a handler has
\* taken while the trip_end row is still in the store
C11_Witness ==
    /\ AllReady
    /\ \E m \in taken : m.eventName = "MODIFY" /\ IsCompleted(m.dynamodb.NewImage)
    /\ HasRow("trip_end")

(***************************************************************************)
(* Fair scheduling: an invocation of the handler runs to its end.          *)
(***************************************************************************)
Continue ==
    \/ \E w \in Workers, raises \in Raises : Update(w, raises)
    \/ \E w \in Workers, raises \in Raises : Delete(w, raises)

FairSpec == Spec /\ WF_vars(Continue)

\* the two rows of the trip have been put and the INSERT notification of each
\* has been taken by a handler
BothPutAndTaken ==
    /\ {InsertOf(S1), InsertOf(E1)} \subseteq feed
    /\ {InsertOf(S1), InsertOf(E1)} \subseteq taken

\* the store holds one row, the completed row at the trip_start key
OnlyCompletedRow ==
    /\ DOMAIN table = {Address(IntakeItem(S1))}
    /\ IsCompleted(table[Address(IntakeItem(S1))])

\* C12: when the intake writer puts the trip_start row and the trip_end row
\* and nothing else, no store call fails and the INSERT notification of each
\* row is eventually handled, then from some point on the store holds exactly
\* the completed row and no trip_end row.
C12_EventuallyMerged ==
    ([](faults = 0 /\ nput <= 2) /\ <>BothPutAndTaken) => <>[]OnlyCompletedRow

(***************************************************************************)
(* The merge                                                               *)
(***************************************************************************)
\* the side the counterpart of a record's row has
OtherSide(record) ==
    IF IsInsert(record, "trip_start") THEN "trip_end" ELSE "trip_start"

\* C13: a step in which the handler takes, without a store failure, the
\* INSERT notification of a row whose trip has no row of the other side
\* leaves the store and the feed unchanged and issues no update and no
\* delete, so the row stays as it was put, without a status attribute.
C13_LoneSideUnchanged ==
    [][\A w \in Workers, record \in feed :
          (/\ Take(w, record, FALSE)
           /\ NewImageOf(record) # None
           /\ ~HasRow(OtherSide(record)))
              => table' = table /\ feed' = feed /\ worker' = worker]_vars

\* the trip_start row alone has been put and its notification handled: the
\* store holds that row as the intake writer made it
C13_Witness ==
    /\ log = <<[e |-> "put", data |-> S1], Begin(1, InsertOf(S1)), End(1)>>
    /\ table = (Address(IntakeItem(S1)) :> IntakeItem(S1))
    /\ "status" \notin DOMAIN table[Address(IntakeItem(S1))]

\* worker w's update is accepted in this step and the row it updates is a
\* partial row of the store
MergesPartial(w) ==
    /\ worker[w].pc = "update"
    /\ worker'[w].updated = "ok"
    /\ Address(worker[w].d.item_to_update_key) \in DOMAIN table
    /\ ~IsCompleted(table[Address(worker[w].d.item_to_update_key)])

\* the attributes of the donor row, as the lookup or the notification gave them
DonorAttributes(w) == DOMAIN worker[w].d.data_to_add

\* C14: when an update merges the donor into a partial trip_start row, the
\* row afterwards is completed and has every attribute the trip_start row or
\* the donor row had, and an attribute both rows had keeps the trip_start
\* row's value.
C14_MergeComplete ==
    [][\A w \in Workers :
          MergesPartial(w) =>
              /\ IsCompleted(table'[Address(worker[w].d.item_to_update_key)])
              /\ DOMAIN table[Address(worker[w].d.item_to_update_key)]
                     \cup DonorAttributes(w)
                   \subseteq DOMAIN table'[Address(worker[w].d.item_to_update_key)]
              /\ \A k \in (DOMAIN table[Address(worker[w].d.item_to_update_key)]
                             \cap DonorAttributes(w)) \ {"status"} :
                    table'[Address(worker[w].d.item_to_update_key)][k]
                        = table[Address(worker[w].d.item_to_update_key)][k]]_vars

\* an update has merged the trip_end row into the trip_start row: the row is
\* completed and carries attributes of both sides
C14_Witness ==
    \E w \in Workers :
        /\ worker[w].pc = "delete" /\ worker[w].updated = "ok"
        /\ Address(IntakeItem(S1)) \in DOMAIN table
        /\ IsCompleted(table[Address(IntakeItem(S1))])
        /\ {"pickup_datetime", "fare_amount", "dropoff_datetime", "raw_data"}
               \subseteq DOMAIN table[Address(IntakeItem(S1))]

\* the attributes a trip_start row owns from its own side
OwnAttributes ==
    {"PK", "SK", "trip_id", "data_type", "timestamp", "raw_data"}
        \cup StartStrAttrs \cup StartNumAttrs

\* worker w's update is accepted in this step, on a row of the store
UpdatesRow(w) ==
    /\ worker[w].pc = "update"
    /\ worker'[w].updated = "ok"
    /\ Address(worker[w].d.item_to_update_key) \in DOMAIN table

\* C15: an accepted update leaves every attribute the updated row owns from
\* its own side with the value it had.
C15_OwnAttributesKept ==
    [][\A w \in Workers :
          UpdatesRow(w) =>
              \A k \in OwnAttributes
                         \cap DOMAIN table[Address(worker[w].d.item_to_update_key)] :
                  /\ k \in DOMAIN table'[Address(worker[w].d.item_to_update_key)]
                  /\ table'[Address(worker[w].d.item_to_update_key)][k]
                       = table[Address(worker[w].d.item_to_update_key)][k]]_vars

\* an update has been accepted on the trip_start row, which still is the row
\* the intake writer made in all the attributes of its side
C15_Witness ==
    \E w \in Workers :
        /\ worker[w].pc = "delete" /\ worker[w].updated = "ok"
        /\ Address(IntakeItem(S1)) \in DOMAIN table
        /\ "fare_amount" \in DOMAIN table[Address(IntakeItem(S1))]
        /\ \A k \in DOMAIN IntakeItem(S1) :
              table[Address(IntakeItem(S1))][k] = IntakeItem(S1)[k]

(***************************************************************************)
(* Failures                                                                *)
(***************************************************************************)
\* a value update_merged_item has no conversion for: a bool, which it takes
\* for a number, or a value unmarshall_dynamodb_item stored as it was
Unconvertible(value) == value.ty \in {"bool", "dict"}

\* every placeholder of the update expression is defined
WellFormed(req) ==
    /\ req.UpdateExpression \subseteq DOMAIN req.ExpressionAttributeValues
    /\ req.UpdateExpression \subseteq DOMAIN req.ExpressionAttributeNames

\* the merged attributes of the data whose value has a conversion
Convertible(data_to_add) ==
    {k \in MergedParts(data_to_add) : ~Unconvertible(data_to_add[k])}

\* the request made of the data has the status and every attribute of the
\* data that has a conversion, with a value
WritesTheRest(req, data_to_add) ==
    /\ "status" \in Convertible(data_to_add)
    /\ Convertible(data_to_add) \subseteq req.UpdateExpression
    /\ Convertible(data_to_add) \subseteq DOMAIN req.ExpressionAttributeValues

\* C16: when the data to merge holds an attribute whose value has no
\* conversion, the request update_merged_item makes of it is well formed and
\* sets the status and the other attributes of the data.
C16_SkipsOnlyUnconvertible ==
    \A w \in Workers :
        (/\ worker[w].pc = "update"
         /\ \E k \in MergedParts(worker[w].d.data_to_add) :
               Unconvertible(worker[w].d.data_to_add[k]))
            => /\ update_merged_item(worker[w].d.item_to_update_key,
                                     worker[w].d.data_to_add) # None
               /\ WritesTheRest(update_merged_item(worker[w].d.item_to_update_key,
                                                   worker[w].d.data_to_add),
                                worker[w].d.data_to_add)
               /\ WellFormed(update_merged_item(worker[w].d.item_to_update_key,
                                                worker[w].d.data_to_add))

\* the answer of the counterpart lookup for the row of an image
Lookup(t, image, raises) ==
    find_counterpart_item(t, GetS(image, "PK"),
        Get(unmarshall_dynamodb_item(image), "data_type"), raises)

\* C17: for every INSERT notification, the answer of the lookup when the
\* query raises differs from its answer when the store holds no counterpart.
C17_LookupErrorDistinct ==
    \A n \in feed :
        NewImageOf(n) # None =>
            Lookup(table, NewImageOf(n), TRUE)
                # Lookup(EmptyTable, NewImageOf(n), FALSE)

\* the record is an INSERT record whose image lacks one of the attributes
LacksOneOf(record, attributes) ==
    /\ record.eventName = "INSERT"
    /\ HasImage(record)
    /\ ~(attributes \subseteq DOMAIN record.dynamodb.NewImage)

\* a step in which a handler takes a record of the feed that lacks one of the
\* attributes issues no store call and leaves the handler at its next record
Dropped(attributes) ==
    \A w \in Workers, record \in feed, raises \in BOOLEAN :
        (Take(w, record, raises) /\ LacksOneOf(record, attributes))
            => /\ table' = table /\ feed' = feed /\ faults' = faults
               /\ worker' = worker

\* C19 as stated: an INSERT record whose image lacks the entity id (PK), the
\* side tag (data_type) or the timestamp is dropped.
C19_DropsWithoutTimestamp ==
    [][Dropped({"PK", "data_type", "timestamp"})]_vars

\* C19: an INSERT record whose image lacks PK, SK or data_type is dropped.
C19_DropsWithoutKeyOrType ==
    [][Dropped({"PK", "SK", "data_type"})]_vars

\* records without PK, without SK and without data_type have been taken
\* while the counterpart of their row is in the store
C19_Witness ==
    /\ HasRow("trip_end")
    /\ \A k \in {"PK", "SK", "data_type"} :
          InsertRecord(Without(IntakeItem(S1), k)) \in taken

(***************************************************************************)
(* lambda_handler on a batch: the records in order, each with the failure  *)
(* that happens while it is handled.                                       *)
(***************************************************************************)
\* what can fail while a record is handled: a store call that raises, or an
\* exception in the handler before the lookup
Failures == {"none", "lookup", "update", "delete", "exception"}

AfterUpdateOr(t, req, raises) ==
    IF Accepted(req, raises) THEN UpdateItem(t, req).table ELSE t

AfterDeleteOr(t, Key, raises) ==
    IF Deletable(Key, raises) THEN DeleteItem(t, Key).table ELSE t

AfterDecisionOr(t, d, failure) ==
    IF d.item_to_update_key = None THEN t
    ELSE AfterDeleteOr(AfterUpdateOr(t, update_merged_item(d.item_to_update_key,
                                                           d.data_to_add),
                                     failure = "update"),
                       d.item_to_delete_key, failure = "delete")

\* the body of the loop on one record: the except clause of the record ends
\* its handling and keeps what was written
RunRecord(t, record, failure) ==
    IF failure = "exception" THEN t
    ELSE AfterDecisionOr(t, HandleRecord(t, NewImageOf(record), failure = "lookup"),
                         failure)

RECURSIVE lambda_handler_stops_at_failure(_, _, _)
\* as lambda_handler, with the loop ended by the first failure
lambda_handler_stops_at_failure(t, Records, failures) ==
    IF Records = <<>> THEN t
    ELSE IF Head(failures) # "none" THEN RunRecord(t, Head(Records), Head(failures))
    ELSE lambda_handler_stops_at_failure(
             RunRecord(t, Head(Records), Head(failures)),
             Tail(Records), Tail(failures))

RECURSIVE lambda_handler(_, _, _)
\* for record in event['Records']: try ... except
lambda_handler(t, Records, failures) ==
    IF Records = <<>> THEN t
    ELSE lambda_handler(RunRecord(t, Head(Records), Head(failures)),
                        Tail(Records), Tail(failures))

\* the records of a batch delivered to an idle driver that has handled at
\* most one record before
BatchRecords == IF AllReady /\ ndeliver <= 1 THEN feed ELSE {}

\* C18: in a batch of two records, with a failure while the first is
\* handled, the second is handled on the store the first has left, as it is
\* when it is delivered alone; with a failure while the second is handled,
\* the store keeps what the first has written.
C18_BatchIndependence ==
    \A n1 \in BatchRecords, n2 \in BatchRecords, failure \in Failures \ {"none"} :
        /\ lambda_handler(table, <<n1, n2>>, <<failure, "none">>)
             = RunHandler(RunRecord(table, n1, failure), n2)
        /\ lambda_handler(table, <<n1, n2>>, <<"none", failure>>)
             = RunRecord(RunHandler(table, n1), n2, failure)

\* a batch whose first record fails in its delete and whose second record
\* changes the store
C18_Witness ==
    \E n1 \in BatchRecords, n2 \in BatchRecords :
        /\ RunRecord(table, n1, "delete") # RunHandler(table, n1)
        /\ lambda_handler(table, <<n1, n2>>, <<"delete", "none">>)
             # RunRecord(table, n1, "delete")
        /\ taken # {}

\* the update has completed the trip_start row with the trip_end row's
\* attributes and the trip_end row is still in the store, no handler running
DonorLeft ==
    /\ AllReady
    /\ DOMAIN table = {Address(IntakeItem(S1)), Address(IntakeItem(E1))}
    /\ IsCompleted(table[Address(IntakeItem(S1))])
    /\ table[Address(IntakeItem(E1))] = IntakeItem(E1)
    /\ HasEndAttributes(table[Address(IntakeItem(S1))], IntakeItem(E1))

\* the store without the row at address a
WithoutRow(t, a) == [b \in DOMAIN t \ {a} |-> t[b]]

\* C20: when the trip_start row is completed and the trip_end row was left
\* in the store, handling the INSERT notification of either row again, with
\* no store failure, removes the trip_end row and leaves the completed row
\* as it is.
C20_RedeliveryRemovesDonor ==
    DonorLeft =>
        \A n \in {InsertOf(S1), InsertOf(E1)} :
            RunHandler(table, n) = WithoutRow(table, Address(IntakeItem(E1)))

(***************************************************************************)
(* Abandoned handlers and rows of one side                                 *)
(***************************************************************************)
\* worker w has looked up and decided for record n and has not issued its
\* update, and nothing else has happened since it took the record
DecidedOnly(w, n) ==
    /\ worker[w].pc = "update"
    /\ \A v \in Workers \ {w} : worker[v].pc = "ready"
    /\ log # Overflow /\ Len(log) > 0
    /\ log[Len(log)] = Begin(w, n)

\* C21: the step in which a handler takes a record, looks the counterpart up
\* and decides writes nothing to the store or the feed; and where a handler
\* has decided and not yet updated, handling its record again from the start
\* leaves the store that carrying on with the decision leaves.
C21_NoMutationBeforeUpdate ==
    [][/\ \A w \in Workers, record \in feed, raises \in BOOLEAN :
             Take(w, record, raises) => table' = table /\ feed' = feed
       /\ \A w \in Workers, n \in feed :
             DecidedOnly(w, n) =>
                 RunHandler(table, n) = AfterDecision(table, worker[w].d)]_vars

\* a handler has decided to merge for the trip_end notification and has not
\* yet issued the update; the store still holds both partial rows
C21_Witness ==
    /\ DecidedOnly(1, InsertOf(E1))
    /\ table = TableOf(IntakeItem(S1), IntakeItem(E1))

\* the row is a row of the side that has not been merged
IsPartial(row, side) == IsSide(row, side) /\ ~IsCompleted(row)

\* C22: the store never holds two not-yet-merged rows of one trip and one
\* side.
C22_OnePartialPerSide ==
    \A a, b \in DOMAIN table, side \in {"trip_start", "trip_end"} :
        (a[1] = b[1] /\ IsPartial(table[a], side) /\ IsPartial(table[b], side))
            => a = b

(***************************************************************************)
(* The counterpart lookup on the stores the system reaches                 *)
(***************************************************************************)
\* the trip ids looked up: the trip of the model and one the store never holds
LookedUpIds == {TripId, <<"T2">>}

Opposite(side) == IF side = "trip_start" THEN "trip_end" ELSE "trip_start"

\* the addresses of the rows of trip id whose sort key begins with side + '#'
RowsOfSide(t, id, side) ==
    {a \in DOMAIN t : a[1] = id /\ SubSeq(a[2], 1, 2) = <<side, "#">>}

IsRowOfSide(row, id, side) ==
    row.PK.S = id /\ Len(row.SK.S) >= 2 /\ row.SK.S[1] = side /\ row.SK.S[2] = "#"

\* the answer of a lookup is a row exactly when the store holds rows of the
\* opposite side, and it is one of them
AnswersOpposite(t, id, side, found) ==
    /\ (found # None) <=> (RowsOfSide(t, id, Opposite(side)) # {})
    /\ found # None => IsRowOfSide(found, id, Opposite(side))
    /\ found # None => \E a \in DOMAIN t : t[a] = found

\* C29: when the query succeeds, find_counterpart_item(trip_id, side) returns
\* a row if and only if the store holds a row with PK = trip_id whose SK begins
\* with the opposite side tag followed by '#', and the returned row is such a
\* row of the store.
C29_CounterpartIffOpposite ==
    \A id \in LookedUpIds, side \in {"trip_start", "trip_end"} :
        AnswersOpposite(table, id, side,
            find_counterpart_item(table, PyStr(id), PyStr(<<side>>), FALSE))

\* the store holds both sides of the trip, and a lookup for the start side
\* answers with the end row
C29_Witness ==
    /\ RowsOfSide(table, TripId, "trip_start") # {}
    /\ RowsOfSide(table, TripId, "trip_end") # {}
    /\ find_counterpart_item(table, PyStr(TripId), PyStr(<<"trip_start">>), FALSE) # None

(***************************************************************************)
(* Functions run on their own.  A call is a record: the function, its      *)
(* position and its locals.  The inputs are drawn at the start of a call;  *)
(* the store's answers are drawn at every request.                         *)
(***************************************************************************)
\* the largest item list handed to batch_write_to_dynamodb
MaxItems == 27

\* the largest batch of stream records of one invocation of the intake handler
MaxRecords == 2

\* max_retries of batch_write_to_dynamodb
max_retries == 3

\* the items of one write request: unprocessed_items[:25]
BatchLimit == 25

system == <<table, feed, worker, nput, ndeliver, faults, log, taken>>

Min(a, b) == IF a < b THEN a ELSE b

Range(seq) == {seq[i] : i \in 1..Len(seq)}

\* as items_in_current_batch, taking the whole list
items_in_current_batch_whole_list(unprocessed_items) == unprocessed_items

\* unprocessed_items[:25]
items_in_current_batch(unprocessed_items) ==
    SubSeq(unprocessed_items, 1, Min(BatchLimit, Len(unprocessed_items)))

\* unprocessed_items[len(items_in_current_batch):]
AfterBatch(unprocessed_items, batch) ==
    SubSeq(unprocessed_items, Len(batch) + 1, Len(unprocessed_items))

\* batch_write_to_dynamodb(table_name, items) before its loop; it returns at
\* once when there are no items.  requests, accepted and reported are the
\* history of the call: the requests sent with their outcome, the items the
\* store accepted, and the items counted as unprocessed at the end.
BatchWrite(items) ==
    [fn |-> "batch_write_to_dynamodb",
     pc |-> IF items = <<>> THEN "returned" ELSE "while",
     items |-> items, unprocessed_items |-> items, retry_count |-> 0,
     requests |-> <<>>, accepted |-> {}, reported |-> <<>>]

\* the answers of batch_write_item to a request: an exception, or a response
\* whose UnprocessedItems are none, the first, the last or all of the batch
Responses(batch) ==
    {[raised |-> TRUE, UnprocessedItems |-> <<>>]}
    \cup {[raised |-> FALSE, UnprocessedItems |-> u] :
             u \in {<<>>, <<batch[1]>>, <<batch[Len(batch)]>>, batch}}

Request(batch, outcome) == [size |-> Len(batch), outcome |-> outcome]

\* as Continues, with one more retry
Continues_one_more(c) == c.unprocessed_items # <<>> /\ c.retry_count <= max_retries

\* the loop condition: unprocessed_items and retry_count < max_retries
Continues(c) == c.unprocessed_items # <<>> /\ c.retry_count < max_retries

\* the except branch: the loop is left
AfterException(c, batch) ==
    [c EXCEPT !.pc = "after", !.requests = Append(@, Request(batch, "raised"))]

\* the response reports unprocessed items: they replace the list
AfterUnprocessed(c, batch, unprocessed_in_response) ==
    [c EXCEPT !.unprocessed_items = unprocessed_in_response,
              !.retry_count = @ + 1,
              !.accepted = @ \cup (Range(batch) \ Range(unprocessed_in_response)),
              !.requests = Append(@, Request(batch, "unprocessed"))]

\* the response reports none: the batch is removed from the list
AfterProcessed(c, batch, rest) ==
    [c EXCEPT !.unprocessed_items = rest,
              !.pc = IF rest = <<>> THEN "after" ELSE "while",
              !.accepted = @ \cup Range(batch),
              !.requests = Append(@, Request(batch, "processed"))]

\* one iteration of the loop of batch_write_to_dynamodb
AfterResponse(c, batch, response) ==
    IF response.raised THEN AfterException(c, batch)
    ELSE IF response.UnprocessedItems # <<>>
    THEN AfterUnprocessed(c, batch, response.UnprocessedItems)
    ELSE AfterProcessed(c, batch, AfterBatch(c.unprocessed_items, batch))

SendBatchOf(batch) ==
    \E response \in Responses(batch) : call' = AfterResponse(call, batch, response)

SendBatch ==
    /\ call.fn = "batch_write_to_dynamodb"
    /\ call.pc = "while"
    /\ Continues(call)
    /\ SendBatchOf(items_in_current_batch(call.unprocessed_items))
    /\ UNCHANGED system

\* after the loop: the items still in unprocessed_items are counted
ReportUnprocessed ==
    /\ call.fn = "batch_write_to_dynamodb"
    /\ call.pc = "after" \/ (call.pc = "while" /\ ~Continues(call))
    /\ call' = [call EXCEPT !.pc = "returned", !.reported = call.unprocessed_items]
    /\ UNCHANGED system

\* the stream data of a record: whether it is base64, and the text it encodes,
\* which is a JSON object, a JSON array or no JSON
KinesisText(json, value) == [json |-> json, value |-> value]

KinesisRecord(base64, text) == [kinesis |-> [data |-> [base64 |-> base64, text |-> text]]]

\* what record['kinesis']['data'], b64decode and json.loads raise, if anything
DecodeError(record) ==
    IF "kinesis" \notin DOMAIN record THEN "KeyError"
    ELSE IF ~record.kinesis.data.base64 THEN "binascii.Error"
    ELSE IF record.kinesis.data.text.json = "invalid" THEN "JSONDecodeError"
    ELSE IF record.kinesis.data.text.json # "object" THEN "AttributeError"
    ELSE "none"

\* process_kinesis_record(record) with its exception handlers
process_record(record) ==
    IF DecodeError(record) # "none" THEN None
    ELSE process_kinesis_record(record.kinesis.data.text,
                                record.kinesis.data.text.value)

\* the payloads built from a complete one: complete, with the timestamps of
\* both sides, without trip_id, with an empty trip_id, without data_type, with
\* the side tag of the producer, and with the timestamp of the other side only
Variants(payload, tag, own, other, t) ==
    {payload,
     (other :> PyStr(<<t>>)) @@ payload,
     Without(payload, "trip_id"),
     [payload EXCEPT !.trip_id = PyStr(<<>>)],
     Without(payload, "data_type"),
     [payload EXCEPT !.data_type = PyStr(<<tag>>)],
     (other :> PyStr(<<t>>)) @@ Without(payload, own)}

Payloads ==
    Variants(StartPayload(Timestamps[1]), "start", "pickup_datetime",
             "dropoff_datetime", Timestamps[2])
    \cup Variants(EndPayload(Timestamps[2]), "end", "dropoff_datetime",
                  "pickup_datetime", Timestamps[1])

\* the stream records of the model: the payloads as JSON objects, and records
\* without data, with data that is not base64, not JSON, or not a JSON object
StreamRecords ==
    {KinesisRecord(TRUE, KinesisText("object", payload)) : payload \in Payloads}
    \cup {[eventID |-> "1"],
          KinesisRecord(FALSE, KinesisText("invalid", EmptyDict)),
          KinesisRecord(TRUE, KinesisText("invalid", EmptyDict)),
          KinesisRecord(TRUE, KinesisText("array", EmptyDict))}

\* lambda1.lambda_handler(event) before its loop
IntakeHandler(Records) ==
    [fn |-> "lambda_handler", pc |-> "for", Records |-> Records, done |-> 0,
     items_for_dynamodb |-> <<>>]

\* if dynamodb_item: items_for_dynamodb.append(dynamodb_item)
Appended(items, dynamodb_item) ==
    IF dynamodb_item = None THEN items ELSE Append(items, dynamodb_item)

\* as ProcessNext, leaving the loop at the first record that gives no item
ProcessNext_stops_at_failure ==
    /\ call.fn = "lambda_handler"
    /\ call.pc = "for"
    /\ call.done < Len(call.Records)
    /\ call' = IF process_record(call.Records[call.done + 1]) = None
               THEN [call EXCEPT !.done = Len(call.Records)]
               ELSE [call EXCEPT !.done = @ + 1,
                       !.items_for_dynamodb =
                           Append(@, process_record(call.Records[call.done + 1]))]
    /\ UNCHANGED system

\* one iteration of the loop over event['Records']
ProcessNext ==
    /\ call.fn = "lambda_handler"
    /\ call.pc = "for"
    /\ call.done < Len(call.Records)
    /\ call' = [call EXCEPT !.done = @ + 1,
                  !.items_for_dynamodb =
                      Appended(@, process_record(call.Records[call.done + 1]))]
    /\ UNCHANGED system

\* after the loop: the items are handed to batch_write_to_dynamodb, if any
WriteItems ==
    /\ call.fn = "lambda_handler"
    /\ call.pc = "for"
    /\ call.done = Len(call.Records)
    /\ call' = IF call.items_for_dynamodb = <<>>
               THEN [call EXCEPT !.pc = "returned"]
               ELSE BatchWrite(call.items_for_dynamodb)
    /\ UNCHANGED system

\* the longest number string drawn for a numeric attribute
MaxChars == 3

\* the number of times a merged value is read back and merged again
MaxMerges == 2

NumberChars == {"0", "1", "5", "7", ".", "-", "E"}

CharStrings == UNION {[1..k -> NumberChars] : k \in 1..MaxChars}

\* the number strings the intake writer makes of the payloads of the model
IntakeNumbers ==
    {<<"1", "5", ".", "7", "5">>, <<"2", "0", ".", "0">>, <<"9", "3">>, <<"2">>}

\* the number strings a numeric attribute of the donor row can hold
NumberStrings ==
    {chars \in CharStrings : Decimal(chars) # InvalidOperation} \cup IntakeNumbers

\* the value update_merged_item writes for fare_amount when the donor row,
\* read through unmarshall_dynamodb_item, holds the wire value
MergedFare(value) ==
    update_merged_item([PK |-> [S |-> TripId],
                        SK |-> [S |-> <<"trip_start", "#", Timestamps[1]>>]],
        unmarshall_dynamodb_item([fare_amount |-> value])
    ).ExpressionAttributeValues.fare_amount

\* the merge of one numeric attribute: written[1] is the donor's value, the
\* following ones are what each merge wrote
MergeOf(chars) == [fn |-> "update_merged_item", written |-> <<[N |-> chars]>>]

\* the value written last is read back and merged again
MergeAgain ==
    /\ call.fn = "update_merged_item"
    /\ Len(call.written) <= MaxMerges
    /\ call' = [call EXCEPT !.written =
                    Append(@, MergedFare(call.written[Len(call.written)]))]
    /\ UNCHANGED system

\* the largest number of pages of a scanned table, and of items of a page
MaxPages == 3

MaxPageItems == 2

RECURSIVE SumOf(_)
SumOf(sizes) == IF sizes = <<>> THEN 0 ELSE Head(sizes) + SumOf(Tail(sizes))

\* the pages of a table whose pages have the given sizes: items 1, 2, ...
PagesOf(sizes) ==
    [i \in 1..Len(sizes) |->
        [j \in 1..sizes[i] |-> SumOf(SubSeq(sizes, 1, i - 1)) + j]]

ScannedTables ==
    {PagesOf(sizes) : sizes \in UNION {[1..k -> 0..MaxPageItems] : k \in 1..MaxPages}}

\* the key after page i
PageKey(i) == [page |-> i]

PageAfter(ExclusiveStartKey) ==
    IF ExclusiveStartKey = None THEN 1 ELSE ExclusiveStartKey.page + 1

ResponseOfPage(pages, i) ==
    [Items |-> pages[i],
     LastEvaluatedKey |-> IF i < Len(pages) THEN PageKey(i) ELSE None]

\* dynamodb.scan: the page after the start key; LastEvaluatedKey is absent
\* (None) in the response of the last page
ScanResponse(pages, ExclusiveStartKey) ==
    ResponseOfPage(pages, PageAfter(ExclusiveStartKey))

\* scan_dynamodb_table(table_name) before its first scan; calls and responses
\* are the history of the call
ScanTable(pages) ==
    [fn |-> "scan_dynamodb_table", pc |-> "scan", pages |-> pages,
     ExclusiveStartKey |-> None, items |-> <<>>,
     calls |-> <<>>, responses |-> <<>>]

\* as AfterScan, returning after the first response
AfterScan_first_page_only(c, response) ==
    [c EXCEPT !.items = @ \o response.Items,
              !.ExclusiveStartKey = response.LastEvaluatedKey,
              !.pc = "returned",
              !.calls = Append(@, c.ExclusiveStartKey),
              !.responses = Append(@, response)]

\* the items of the response are collected; its LastEvaluatedKey is the start
\* key of the next scan, and without one the function returns
AfterScan(c, response) ==
    [c EXCEPT !.items = @ \o response.Items,
              !.ExclusiveStartKey = response.LastEvaluatedKey,
              !.pc = IF response.LastEvaluatedKey = None THEN "returned" ELSE "scan",
              !.calls = Append(@, c.ExclusiveStartKey),
              !.responses = Append(@, response)]

\* one scan request of scan_dynamodb_table
ScanPage ==
    /\ call.fn = "scan_dynamodb_table"
    /\ call.pc = "scan"
    /\ call' = AfterScan(call, ScanResponse(call.pages, call.ExclusiveStartKey))
    /\ UNCHANGED system

\* what the reporting main gets from the scan: no data, or rows of which
\* some are valid
ScanResults ==
    {[data |-> FALSE, rows |-> <<>>]}
    \cup {[data |-> TRUE, rows |-> rows] :
             rows \in UNION {[1..k -> BOOLEAN] : k \in 0..MaxPageItems}}

IsValidRow(row) == row

\* main() of the reporting script before it runs
Main(scanned) ==
    [fn |-> "main", pc |-> "start", scanned |-> scanned, put_object |-> 0,
     exit |-> 0]

\* as AfterMain, uploading a report whatever the rows
AfterMain_uploads_anyway(c) ==
    IF ~c.scanned.data THEN [c EXCEPT !.pc = "exited", !.exit = 1]
    ELSE [c EXCEPT !.pc = "returned", !.put_object = @ + 1]

\* main(): exit with an error when the scan gave no data or no valid row
\* remains, otherwise one upload of the report
AfterMain(c) ==
    IF ~c.scanned.data \/ SelectSeq(c.scanned.rows, IsValidRow) = <<>>
    THEN [c EXCEPT !.pc = "exited", !.exit = 1]
    ELSE [c EXCEPT !.pc = "returned", !.put_object = @ + 1]

RunMain ==
    /\ call.fn = "main"
    /\ call.pc = "start"
    /\ call' = AfterMain(call)
    /\ UNCHANGED system

\* the largest number of rows of the start data and of the end data
MaxRows == 2

\* a pandas Timestamp; str() gives its text
Timestamp(t) == [ty |-> "Timestamp", repr |-> <<t>>]

\* the rows of the start data and of the end data of a trip
StartRow(id) ==
    [trip_id |-> PyStr(id), pickup_datetime |-> Timestamp(Timestamps[1]),
     pickup_location_id |-> PyNum(<<"9", "3">>),
     estimated_fare_amount |-> PyNum(<<"1", "2", ".", "5">>)]

EndRow(id) ==
    [trip_id |-> PyStr(id), dropoff_datetime |-> Timestamp(Timestamps[2]),
     fare_amount |-> PyNum(<<"1", "5", ".", "7", "5">>),
     passenger_count |-> PyNum(<<"2">>)]

\* the trip id columns of the data of one side: up to MaxRows rows
IdColumns == UNION {[1..k -> {<<"T1">>, <<"T2">>}] : k \in 0..MaxRows}

\* the rows of paired_data made of one start row: one per end row of its trip
RECURSIVE PairsOf(_, _)
PairsOf(start, end_data) ==
    IF end_data = <<>> THEN <<>>
    ELSE (IF Head(end_data).trip_id = start.trip_id
          THEN <<[start |-> start, end |-> Head(end_data)]>> ELSE <<>>)
         \o PairsOf(start, Tail(end_data))

\* pd.merge(start_data, end_data, on='trip_id'): the inner join, in the order
\* of the start rows
RECURSIVE merge(_, _)
merge(start_data, end_data) ==
    IF start_data = <<>> THEN <<>>
    ELSE PairsOf(Head(start_data), end_data) \o merge(Tail(start_data), end_data)

start_record(row) ==
    [trip_id |-> row.start.trip_id,
     pickup_datetime |-> PyStr(Str(row.start.pickup_datetime)),
     data_type |-> PyStr(<<"start">>),
     pickup_location_id |-> row.start.pickup_location_id,
     estimated_fare_amount |-> row.start.estimated_fare_amount]

end_record(row) ==
    [trip_id |-> row.start.trip_id,
     dropoff_datetime |-> PyStr(Str(row.end.dropoff_datetime)),
     data_type |-> PyStr(<<"end">>),
     fare_amount |-> row.end.fare_amount,
     passenger_count |-> row.end.passenger_count]

\* what put_record(Data=json.dumps(record), PartitionKey=str(row['trip_id']))
\* puts on the stream
put_record(record, row) ==
    [Data |-> KinesisText("object", record), PartitionKey |-> Str(row.start.trip_id)]

\* send_paired_data_to_kinesis(start_data, end_data) before its loop; stream
\* holds the records published, outcomes is the history of the iterations
SendPaired(start_data, end_data) ==
    [fn |-> "send_paired_data_to_kinesis",
     start_data |-> start_data, end_data |-> end_data,
     paired_data |-> merge(start_data, end_data), sent |-> 0,
     stream |-> <<>>, outcomes |-> <<>>]

\* the records one iteration publishes: both, none when the first put_record
\* raises, the start record when the second raises
Published(row, outcome) ==
    IF outcome = "start_failed" THEN <<>>
    ELSE IF outcome = "end_failed" THEN <<put_record(start_record(row), row)>>
    ELSE <<put_record(start_record(row), row), put_record(end_record(row), row)>>

\* as AfterPair, leaving the loop when a put_record raises
AfterPair_stops_at_failure(c, row, outcome) ==
    [c EXCEPT !.sent = IF outcome = "sent" THEN @ + 1 ELSE Len(c.paired_data),
              !.stream = @ \o Published(row, outcome),
              !.outcomes = Append(@, [trip_id |-> row.start.trip_id,
                                      outcome |-> outcome])]

\* one iteration of the loop over paired_data, with its except clause
AfterPair(c, row, outcome) ==
    [c EXCEPT !.sent = @ + 1,
              !.stream = @ \o Published(row, outcome),
              !.outcomes = Append(@, [trip_id |-> row.start.trip_id,
                                      outcome |-> outcome])]

SendPair ==
    /\ call.fn = "send_paired_data_to_kinesis"
    /\ call.sent < Len(call.paired_data)
    /\ \E outcome \in {"sent", "start_failed", "end_failed"} :
           call' = AfterPair(call, call.paired_data[call.sent + 1], outcome)
    /\ UNCHANGED system

\* the item lists 1..n and the batches of stream records a call starts with
ItemLists == {[i \in 1..n |-> i] : n \in 0..MaxItems}

Batches == UNION {[1..k -> StreamRecords] : k \in 0..MaxRecords}

Calls ==
    {BatchWrite(items) : items \in ItemLists}
    \cup {IntakeHandler(Records) : Records \in Batches}
    \cup {MergeOf(chars) : chars \in NumberStrings}
    \cup {ScanTable(pages) : pages \in ScannedTables}
    \cup {Main(scanned) : scanned \in ScanResults}
    \cup {SendPaired([i \in 1..Len(starts) |-> StartRow(starts[i])],
                      [i \in 1..Len(ends) |-> EndRow(ends[i])]) :
              starts \in IdColumns, ends \in IdColumns}

CallInit ==
    /\ table = [a \in {} |-> None]
    /\ feed = {}
    /\ worker = [w \in Workers |-> Ready]
    /\ nput = 0
    /\ ndeliver = 0
    /\ faults = 0
    /\ log = <<>>
    /\ taken = {}
    /\ call \in Calls

CallNext ==
    \/ SendBatch
    \/ ReportUnprocessed
    \/ ProcessNext
    \/ WriteItems
    \/ MergeAgain
    \/ ScanPage
    \/ RunMain
    \/ SendPair

CallSpec == CallInit /\ [][CallNext]_vars

\* a step of batch_write_to_dynamodb
BatchStep == SendBatch \/ ReportUnprocessed

\* a call of batch_write_to_dynamodb keeps running until it returns
FairCallSpec == CallSpec /\ WF_vars(BatchStep)

IsBatchWrite == call.fn = "batch_write_to_dynamodb"

\* the number of requests of a call with a given outcome
CountOutcome(requests, outcome) ==
    Cardinality({i \in 1..Len(requests) : requests[i].outcome = outcome})

\* ceil(n / 25)
CeilBatches(n) == (n + BatchLimit - 1) \div BatchLimit

RequestsBounded ==
    IsBatchWrite =>
        /\ CountOutcome(call.requests, "unprocessed") <= 3
        /\ \A i \in 1..Len(call.requests) :
               call.requests[i].outcome = "raised" => i = Len(call.requests)
        /\ Len(call.requests) <= CeilBatches(Len(call.items)) + 3
        /\ (call.pc = "returned" /\ call.items # <<>>) =>
               \/ call.unprocessed_items = <<>>
               \/ CountOutcome(call.requests, "unprocessed") = 3
               \/ CountOutcome(call.requests, "raised") = 1

\* C23: batch_write_to_dynamodb returns for every item list and every
\* sequence of store responses; it sends no request after 3 responses that
\* report unprocessed items nor after an exception, and at most
\* ceil(n/25) + 3 requests for n items.
C23_BoundedAndTerminates ==
    /\ []RequestsBounded
    /\ IsBatchWrite ~> (IsBatchWrite /\ call.pc = "returned")

\* a call with more than 25 items returned after three responses that
\* reported unprocessed items
C23_Witness ==
    /\ IsBatchWrite
    /\ call.pc = "returned"
    /\ Len(call.items) > BatchLimit
    /\ CountOutcome(call.requests, "unprocessed") = 3

\* C24: when batch_write_to_dynamodb has returned, every input item was
\* accepted by the store in some request or is among the items counted as
\* unprocessed at the end.
C24_NoSilentLoss ==
    (IsBatchWrite /\ call.pc = "returned") =>
        Range(call.items) \subseteq call.accepted \cup Range(call.reported)

IsIntakeHandler == call.fn = "lambda_handler"

SideTimestamp(side) ==
    IF side = "trip_start" THEN "pickup_datetime" ELSE "dropoff_datetime"

\* the row is keyed by the payload: PK is its trip id, SK is the side, '#'
\* and the timestamp of that side, and the data_type attribute is the part
\* of SK before '#'
KeyedBy(item, payload, side) ==
    /\ Get(payload, "data_type") = PyStr(<<side>>)
    /\ Get(payload, "trip_id") = PyStr(item.PK.S)
    /\ Len(item.SK.S) = 3 /\ item.SK.S[1] = side /\ item.SK.S[2] = "#"
    /\ Get(payload, SideTimestamp(side)) = PyStr(<<item.SK.S[3]>>)
    /\ item.data_type.S = SubSeq(item.SK.S, 1, IndexOf(item.SK.S, "#") - 1)

\* the payload a row was made of is the JSON object of its raw_data
IsIntakeRow(item) ==
    \E side \in {"trip_start", "trip_end"} :
        KeyedBy(item, item.raw_data.S.value, side)

\* C25: every row the intake handler prepares for the store has PK = trip_id
\* and SK = data_type + '#' + timestamp, where data_type is trip_start or
\* trip_end and the timestamp is pickup_datetime for trip_start and
\* dropoff_datetime for trip_end, and its data_type attribute is the side
\* prefix of its SK.
C25_RowKeyedBySide ==
    IsIntakeHandler =>
        \A i \in 1..Len(call.items_for_dynamodb) :
            IsIntakeRow(call.items_for_dynamodb[i])

\* a batch of a trip_start and a trip_end record that carry both timestamps
\* has been processed into two rows
C25_Witness ==
    /\ IsIntakeHandler
    /\ call.done = 2
    /\ Len(call.items_for_dynamodb) = 2
    /\ \A i \in 1..2 :
           {"pickup_datetime", "dropoff_datetime"}
               \subseteq DOMAIN call.Records[i].kinesis.data.text.value
    /\ call.items_for_dynamodb[1].SK.S = <<"trip_start", "#", Timestamps[1]>>
    /\ call.items_for_dynamodb[2].SK.S = <<"trip_end", "#", Timestamps[2]>>

IsMerge == call.fn = "update_merged_item"

RECURSIVE StripTrailingZeros(_)
StripTrailingZeros(int) ==
    IF Len(int) > 1 /\ int[Len(int)] = "0"
    THEN StripTrailingZeros(SubSeq(int, 1, Len(int) - 1)) ELSE int

\* the decimal a Decimal denotes: sign, digits without trailing zeros, and
\* the exponent of the last digit; zero whatever its sign and exponent
Denoted(sign, int, exp, digits) ==
    IF int = <<"0">> THEN <<0, int, 0>>
    ELSE <<sign, digits, exp + Len(int) - Len(digits)>>

DecimalDenoted(d) == Denoted(d.sign, d.int, d.exp, StripTrailingZeros(d.int))

SameDecimal(written, donor) ==
    /\ DOMAIN written = {"N"}
    /\ Decimal(written.N) # InvalidOperation
    /\ DecimalDenoted(Decimal(written.N)) = DecimalDenoted(Decimal(donor.N))

\* C26: the number string update_merged_item writes for a numeric attribute
\* read by unmarshall_dynamodb_item denotes the same decimal as the donor's
\* string, and merging the written value again writes the same string.
C26_DecimalPreserved ==
    IsMerge =>
        \A i \in 2..Len(call.written) :
            /\ SameDecimal(call.written[i], call.written[1])
            /\ i > 2 => call.written[i] = call.written[i - 1]

\* '15.75' has been merged twice and is still '15.75'
C26_Witness ==
    /\ IsMerge
    /\ Len(call.written) = 3
    /\ call.written[1] = [N |-> <<"1", "5", ".", "7", "5">>]
    /\ call.written[3] = [N |-> <<"1", "5", ".", "7", "5">>]

IsScan == call.fn = "scan_dynamodb_table"

RECURSIVE Flattened(_)
Flattened(pages) ==
    IF pages = <<>> THEN <<>> ELSE Head(pages) \o Flattened(Tail(pages))

\* C27: scan_dynamodb_table issues the first scan without a start key, passes
\* each response's LastEvaluatedKey as ExclusiveStartKey of the next scan,
\* stops at the first response without LastEvaluatedKey, and returns the
\* items of all pages in order, with as many scans as pages.
C27_ScansEveryPage ==
    IsScan =>
        /\ Len(call.calls) >= 1 => call.calls[1] = None
        /\ \A i \in 2..Len(call.calls) :
               /\ call.responses[i - 1].LastEvaluatedKey # None
               /\ call.calls[i] = call.responses[i - 1].LastEvaluatedKey
        /\ call.pc = "returned" =>
               /\ call.responses[Len(call.responses)].LastEvaluatedKey = None
               /\ Len(call.calls) = Len(call.pages)
               /\ call.items = Flattened(call.pages)
        /\ call.pc = "scan" /\ Len(call.calls) >= 1 =>
               call.responses[Len(call.responses)].LastEvaluatedKey # None

\* a table of three pages has been scanned to its end
C27_Witness ==
    /\ IsScan
    /\ call.pc = "returned"
    /\ Len(call.pages) = 3
    /\ Len(call.items) >= 3

IsMain == call.fn = "main"

NoValidRow(scanned) ==
    ~scanned.data \/ \A i \in 1..Len(scanned.rows) : ~scanned.rows[i]

\* C28: when the scan yields no data, or no valid row remains after the
\* filtering, main exits with an error and put_object is never called.
C28_NoDataNoUpload ==
    (IsMain /\ NoValidRow(call.scanned)) =>
        /\ call.put_object = 0
        /\ call.pc # "returned"
        /\ call.pc # "start" => call.pc = "exited" /\ call.exit # 0

\* main has run on rows none of which is valid
C28_Witness ==
    /\ IsMain
    /\ call.scanned.data
    /\ Len(call.scanned.rows) = 2
    /\ NoValidRow(call.scanned)
    /\ call.pc = "exited"

Decodable(record) ==
    /\ "kinesis" \in DOMAIN record
    /\ record.kinesis.data.base64
    /\ record.kinesis.data.text.json = "object"

Has(payload, field) ==
    Get(payload, field) # None /\ Get(payload, field) # PyStr(<<>>)

HasSide(payload) ==
    \E side \in {"trip_start", "trip_end"} :
        Get(payload, "data_type") = PyStr(<<side>>) /\ Has(payload, SideTimestamp(side))

\* a record that can be decoded and has trip_id, data_type and the timestamp
\* of its side
IsValidRecord(record) ==
    /\ Decodable(record)
    /\ Has(record.kinesis.data.text.value, "trip_id")
    /\ HasSide(record.kinesis.data.text.value)

RowOf(record) ==
    process_kinesis_record(record.kinesis.data.text, record.kinesis.data.text.value)

RECURSIVE RowsOfValid(_)
RowsOfValid(Records) ==
    IF Records = <<>> THEN <<>>
    ELSE (IF IsValidRecord(Head(Records)) THEN <<RowOf(Head(Records))>> ELSE <<>>)
         \o RowsOfValid(Tail(Records))

\* the step after the loop hands the rows of the valid records, and only
\* them, to batch_write_to_dynamodb
PassesValid(Records, rows) ==
    IF rows = <<>> THEN call' = [call EXCEPT !.pc = "returned"]
    ELSE call'.fn = "batch_write_to_dynamodb" /\ call'.items = rows

\* C30: in the intake handler, a record that cannot be decoded or that lacks
\* trip_id, data_type or the timestamp of its side gives no item, and the
\* rows of all valid records of the batch, and only they, are passed to the
\* store write.
C30_DropsInvalidKeepsValid ==
    [][IsIntakeHandler =>
         /\ call.items_for_dynamodb = RowsOfValid(SubSeq(call.Records, 1, call.done))
         /\ (call.pc = "for" /\ call.done = Len(call.Records)) =>
                PassesValid(call.Records, RowsOfValid(call.Records))]_vars

\* a batch of a record that cannot be decoded and a valid record has been
\* processed into one item
C30_Witness ==
    /\ IsIntakeHandler
    /\ call.done = 2
    /\ ~Decodable(call.Records[1])
    /\ IsValidRecord(call.Records[2])
    /\ Len(call.items_for_dynamodb) = 1

(***************************************************************************)
(* The status attribute and the side of a row                              *)
(***************************************************************************)
HasDataType(row, side) == "data_type" \in DOMAIN row /\ IsSide(row, side)

\* C32: in every reachable state, a row with status = 'completed' has
\* data_type 'trip_start', and no row with data_type 'trip_end' carries a
\* status attribute.
C32_StatusOnlyOnStart ==
    \A a \in DOMAIN table :
        /\ IsCompleted(table[a]) => HasDataType(table[a], "trip_start")
        /\ HasDataType(table[a], "trip_end") => "status" \notin DOMAIN table[a]

\* the store holds a completed row and a trip_end row
C32_Witness ==
    /\ \E a \in DOMAIN table : IsCompleted(table[a])
    /\ \E a \in DOMAIN table : HasDataType(table[a], "trip_end")

\* C34: every write request batch_write_to_dynamodb sends to the store
\* contains between 1 and 25 items.
C34_RequestSizes ==
    IsBatchWrite =>
        \A i \in 1..Len(call.requests) :
            call.requests[i].size >= 1 /\ call.requests[i].size <= 25

\* a list of more than 25 items was written in a request of 25 items and a
\* request of the rest
C34_Witness ==
    /\ IsBatchWrite
    /\ Len(call.items) > 25
    /\ Len(call.requests) = 2
    /\ call.requests[1].size = 25
    /\ call.requests[2].size = Len(call.items) - 25

(***************************************************************************)
(* The producer and the intake writer                                      *)
(***************************************************************************)
IsProducer == call.fn = "send_paired_data_to_kinesis"

\* C31: every record send_paired_data_to_kinesis publishes, which has a trip
\* id, a side tag and the timestamp of its side, yields a row when the intake
\* writer processes it, and is not dropped.
C31_PublishedAccepted ==
    IsProducer =>
        \A j \in 1..Len(call.stream) :
            process_record(KinesisRecord(TRUE, call.stream[j].Data)) # None

IdsOf(data) == {data[i].trip_id : i \in 1..Len(data)}

IsRecordOf(message, tag, trip_id) ==
    /\ message.Data.value.data_type = PyStr(<<tag>>)
    /\ message.Data.value.trip_id = trip_id

\* the start record and the end record of the trip are on the stream, one
\* after the other
PublishedPair(stream, trip_id) ==
    \E j \in 1..(Len(stream) - 1) :
        /\ IsRecordOf(stream[j], "start", trip_id)
        /\ IsRecordOf(stream[j + 1], "end", trip_id)

Returned == IsProducer /\ call.sent = Len(call.paired_data)

\* C33: every record published carries its trip id as partition key and is
\* of a trip present in both the start data and the end data; an end record
\* directly follows the start record of its trip; and when the producer
\* returns, every trip present on both sides has been attempted, whatever
\* failed before it, and both its records are on the stream, start first,
\* when its iteration did not fail.
C33_PairsInOrder ==
    IsProducer =>
        /\ \A j \in 1..Len(call.stream) :
               /\ call.stream[j].PartitionKey = Str(call.stream[j].Data.value.trip_id)
               /\ call.stream[j].Data.value.trip_id
                      \in IdsOf(call.start_data) \cap IdsOf(call.end_data)
               /\ call.stream[j].Data.value.data_type = PyStr(<<"end">>) =>
                      /\ j > 1
                      /\ IsRecordOf(call.stream[j - 1], "start",
                                    call.stream[j].Data.value.trip_id)
        /\ Returned =>
               \A trip_id \in IdsOf(call.start_data) \cap IdsOf(call.end_data) :
                   \E k \in 1..Len(call.outcomes) :
                       /\ call.outcomes[k].trip_id = trip_id
                       /\ call.outcomes[k].outcome = "sent" =>
                              PublishedPair(call.stream, trip_id)

\* the publication of the first trip failed and the second trip was
\* published
C33_Witness ==
    /\ Returned
    /\ Len(call.outcomes) = 2
    /\ call.outcomes[1].outcome = "start_failed"
    /\ call.outcomes[2].outcome = "sent"
    /\ call.outcomes[1].trip_id # call.outcomes[2].trip_id
    /\ Len(call.stream) = 2

====
